---- MODULE Spec2Model ----
(***************************************************************************)
(* Model of the tabular data preparation pipeline of horse_racing_ai:      *)
(*   src/src/utils/data_validator.py            (DataValidator)            *)
(*   src/src/data_processing/feature_engineering.py   (FeatureEngineer)    *)
(*                                                                         *)
(* A table (pandas DataFrame) is a record [cols, rows]: cols is the set of *)
(* column names, rows the sequence of rows in table order; a row is        *)
(* [id, c] with id the index label of the row and c the cells by column.   *)
(* A cell is one of                                                        *)
(*   [t |-> "nan"]                  missing (NaN)                          *)
(*   [t |-> "num", n, d]            the number n/d in lowest terms, d > 0  *)
(*   [t |-> "inf", sg]              +inf / -inf                            *)
(*   [t |-> "str", s]               text, s the sequence of its codepoints *)
(*   [t |-> "dev", sg, qn, qd]      the number 50 + 10*sg*sqrt(qn/qd)      *)
(* Arithmetic is exact rational arithmetic with the IEEE rules for         *)
(* division by zero and NaN; floating point rounding is modelled only      *)
(* where it decides a comparison with zero (MeanDrift).                    *)
(* The library semantics are those of pandas 2.x.                          *)
(* A stage that raises returns [raised |-> <exception name>].              *)
(* input is the content of the caller's table object, df the content of    *)
(* the table a call works on, and alias tells whether the two are one      *)
(* object, so that a column assignment to the one writes the other.        *)
(***************************************************************************)
EXTENDS Integers, Sequences, FiniteSets, TLC

VARIABLES input, df, prev, pc, err, run, first, report, alias

vars == <<input, df, prev, pc, err, run, first, report, alias>>

---------------------------------------------------------------------------
(* Bounds of the explored inputs.                                          *)

\* rows of a generated table
MaxRows == 2

---------------------------------------------------------------------------
(* Cells.                                                                  *)

Abs(x) == IF x < 0 THEN -x ELSE x

RECURSIVE GCD(_, _)
GCD(a, b) == IF b = 0 THEN a ELSE GCD(b, a % b)

NaN == [t |-> "nan"]

Inf(sg) == [t |-> "inf", sg |-> sg]

Num(n, d) ==
    LET g == GCD(Abs(n), Abs(d))
        s == IF d < 0 THEN -1 ELSE 1
    IN  [t |-> "num", n |-> (s * n) \div g, d |-> (s * d) \div g]

NumI(n) == [t |-> "num", n |-> n, d |-> 1]

Str(s) == [t |-> "str", s |-> s]

IsNum(c) == c.t = "num"
IsStr(c) == c.t = "str"
\* pandas isna(): NaN is the only missing value of the model
isna(c) == c.t = "nan"

\* a <= b for two "num" cells
LeQ(a, b) == a.n * b.d <= b.n * a.d

(* Text constants, as codepoint sequences.                                 *)
TxtEmpty == << >>
TxtZero == <<48>>
TxtNan == <<110, 97, 110>>
TxtInf == <<105, 110, 102>>
TxtMinus == <<45>>
TxtDot == <<46>>
TxtUnderscore == <<95>>
\* U+5916 and U+6D88, the withdrawal and scratch markers
TxtGai == <<22806>>
TxtKeshi == <<28040>>
TxtDQ == <<68, 81>>
TxtDNS == <<68, 78, 83>>

AllDigits(s) == \A i \in DOMAIN s : s[i] \in 48..57

RECURSIVE DigitsValue(_)
DigitsValue(s) ==
    IF Len(s) = 0 THEN 0
    ELSE 10 * DigitsValue(SubSeq(s, 1, Len(s) - 1)) + (s[Len(s)] - 48)

RECURSIVE NatToTxt(_)
NatToTxt(n) ==
    IF n < 10 THEN <<48 + n>>
    ELSE Append(NatToTxt(n \div 10), 48 + (n % 10))

RECURSIVE Pow10(_)
Pow10(k) == IF k = 0 THEN 1 ELSE 10 * Pow10(k - 1)

\* the position of the first "." of s, 0 when it has none
DotAt(s) ==
    IF \E i \in 1..Len(s) : s[i] = 46
    THEN CHOOSE i \in 1..Len(s) : s[i] = 46 /\ \A j \in 1..(i - 1) : s[j] # 46
    ELSE 0

\* an unsigned decimal: digits, with at most one "." among them
IsUnsignedDecimal(s) ==
    LET p == DotAt(s)
    IN  IF p = 0 THEN Len(s) > 0 /\ AllDigits(s)
        ELSE /\ Len(s) > 1
             /\ AllDigits(SubSeq(s, 1, p - 1))
             /\ AllDigits(SubSeq(s, p + 1, Len(s)))

UnsignedDecimalValue(s) ==
    LET p == DotAt(s)
    IN  IF p = 0 THEN NumI(DigitsValue(s))
        ELSE Num(DigitsValue(SubSeq(s, 1, p - 1)) * Pow10(Len(s) - p)
                   + DigitsValue(SubSeq(s, p + 1, Len(s))),
                 Pow10(Len(s) - p))

\* a decimal number in ASCII, with an optional leading "-"
IsDecimal(s) ==
    /\ Len(s) > 0
    /\ IF s[1] = 45 THEN IsUnsignedDecimal(Tail(s)) ELSE IsUnsignedDecimal(s)

DecimalValue(s) ==
    IF s[1] = 45
    THEN LET v == UnsignedDecimalValue(Tail(s)) IN Num(-v.n, v.d)
    ELSE UnsignedDecimalValue(s)

(* pd.to_numeric(x, errors='coerce') on one cell.  The grammar modelled is *)
(* the ASCII decimal number and the words inf and nan; every other text,   *)
(* the empty text and full-width digits included, is coerced to NaN.       *)
ToNumeric(c) ==
    IF IsStr(c)
    THEN IF IsDecimal(c.s) THEN DecimalValue(c.s)
         ELSE IF c.s = TxtInf THEN Inf(1) ELSE NaN
    ELSE c

(* str(x) of one cell, as Series.astype(str) applies it: NaN becomes the   *)
(* text nan.  A number with a fractional part is written with one decimal  *)
(* digit (the model's inputs hold integers and halves only).               *)
AsStr(c) ==
    CASE c.t = "str" -> c
      [] c.t = "nan" -> Str(TxtNan)
      [] c.t = "inf" -> Str(IF c.sg < 0 THEN TxtMinus \o TxtInf ELSE TxtInf)
      [] c.t = "num" ->
            LET a == Abs(c.n)
                sign == IF c.n < 0 THEN TxtMinus ELSE TxtEmpty
            IN  IF c.d = 1 THEN Str(sign \o NatToTxt(a))
                ELSE Str(sign \o NatToTxt(a \div c.d) \o TxtDot
                              \o NatToTxt(((a % c.d) * 10) \div c.d))
      [] OTHER -> Str(TxtNan)

(* str(x) of one cell of a float64 column: an integral value is written   *)
(* with ".0".                                                              *)
AsStrFloat(c) ==
    IF IsNum(c) /\ c.d = 1 THEN Str(AsStr(c).s \o TxtDot \o TxtZero) ELSE AsStr(c)

(* int(x) of one number, as astype(int) applies it: truncation to zero.    *)
AsInt(c) ==
    IF c.n < 0 THEN NumI(-(Abs(c.n) \div c.d)) ELSE NumI(c.n \div c.d)

\* the exception an operation on one cell raises
Err(kind) == [t |-> "err", kind |-> kind]

IsZero(c) == IsNum(c) /\ c.n = 0

\* the sign of a "num" or "inf" cell
Sign(c) == IF c.t = "inf" THEN c.sg ELSE IF c.n > 0 THEN 1 ELSE IF c.n < 0 THEN -1 ELSE 0

(* float arithmetic on "num", "inf" and "nan" cells.                       *)
Neg(a) ==
    CASE a.t = "num" -> Num(-a.n, a.d)
      [] a.t = "inf" -> Inf(-a.sg)
      [] OTHER -> a

Add(a, b) ==
    IF isna(a) \/ isna(b) THEN NaN
    ELSE IF a.t = "inf" /\ b.t = "inf" THEN (IF a.sg = b.sg THEN a ELSE NaN)
    ELSE IF a.t = "inf" THEN a
    ELSE IF b.t = "inf" THEN b
    ELSE LET g == GCD(a.d, b.d)
         IN  Num(a.n * (b.d \div g) + b.n * (a.d \div g), (a.d \div g) * b.d)

Sub(a, b) == Add(a, Neg(b))

Mul(a, b) ==
    IF isna(a) \/ isna(b) THEN NaN
    ELSE IF a.t = "inf" \/ b.t = "inf"
         THEN (IF IsZero(a) \/ IsZero(b) THEN NaN ELSE Inf(Sign(a) * Sign(b)))
    ELSE LET g == GCD(Abs(a.n), b.d)
             h == GCD(Abs(b.n), a.d)
         IN  Num((a.n \div g) * (b.n \div h), (a.d \div h) * (b.d \div g))

Div(a, b) ==
    IF isna(a) \/ isna(b) THEN NaN
    ELSE IF IsZero(b) THEN (IF IsZero(a) THEN NaN ELSE Inf(Sign(a)))
    ELSE IF b.t = "inf" THEN (IF a.t = "inf" THEN NaN ELSE NumI(0))
    ELSE IF a.t = "inf" THEN Inf(Sign(a) * Sign(b))
    ELSE LET g == GCD(Abs(a.n), Abs(b.n))
             h == GCD(a.d, b.d)
         IN  Num((a.n \div g) * (b.d \div h), (a.d \div h) * (b.n \div g))

---------------------------------------------------------------------------
(* Tables.                                                                 *)

Raised(kind) == [raised |-> kind]
IsRaised(x) == "raised" \in DOMAIN x

MapCol(T, col, F(_)) ==
    [cols |-> T.cols,
     rows |-> [i \in 1..Len(T.rows) |->
                 [id |-> T.rows[i].id,
                  c  |-> [k \in T.cols |->
                            IF k = col THEN F(T.rows[i].c[k])
                                       ELSE T.rows[i].c[k]]]]]

FilterRows(T, Keep(_)) == [cols |-> T.cols, rows |-> SelectSeq(T.rows, Keep)]

\* DataFrame.dropna(subset=...)
dropna(T, subset) ==
    FilterRows(T, LAMBDA r : \A k \in subset : ~ isna(r.c[k]))

ColHas(T, col, P(_)) == \E i \in 1..Len(T.rows) : P(T.rows[i].c[col])

Ids(T) == {T.rows[i].id : i \in 1..Len(T.rows)}

RowIx(T, id) == CHOOSE i \in 1..Len(T.rows) : T.rows[i].id = id

RowOf(T, id) == T.rows[RowIx(T, id)]

(* Column dtypes, as pandas infers them: a column holding a text cell is   *)
(* an object column, whose cells keep their Python types; a column of      *)
(* numbers only is int64, and float64 once it holds NaN, inf or a          *)
(* fraction.                                                               *)
IsObjectCol(T, col) == \E i \in 1..Len(T.rows) : IsStr(T.rows[i].c[col])

IsFloatCol(T, col) ==
    /\ ~ IsObjectCol(T, col)
    /\ \E i \in 1..Len(T.rows) :
          LET c == T.rows[i].c[col] IN ~ IsNum(c) \/ c.d # 1

\* Series.astype(str) on the cell c of column col
AsStrIn(T, col, c) == IF IsFloatCol(T, col) THEN AsStrFloat(c) ELSE AsStr(c)

HasErr(vals) == \E i \in 1..Len(vals) : vals[i].t = "err"

FirstErr(vals) ==
    vals[CHOOSE i \in 1..Len(vals) :
            vals[i].t = "err" /\ \A j \in 1..(i - 1) : vals[j].t # "err"].kind

(* df[name] = vals: the column is added or overwritten; the statement      *)
(* raises when computing a value raised.                                   *)
WithCol(T, name, vals) ==
    IF HasErr(vals) THEN Raised(FirstErr(vals))
    ELSE [cols |-> T.cols \cup {name},
          rows |-> [i \in 1..Len(T.rows) |->
                      [id |-> T.rows[i].id,
                       c  |-> [k \in T.cols \cup {name} |->
                                 IF k = name THEN vals[i] ELSE T.rows[i].c[k]]]]]

\* the assignment df_copy = df: no copy is made
copy_shared(shared) == shared

(* DataFrame.copy(): whether the result is the caller's object, given      *)
(* whether the argument is: a copy is a new object with data of its own.   *)
copy(shared) == FALSE

\* the last table of a chain of column assignments that did not raise
LastGood(ts) ==
    ts[CHOOSE i \in 1..Len(ts) :
          /\ ~ IsRaised(ts[i])
          /\ \A j \in 1..Len(ts) : ~ IsRaised(ts[j]) => j <= i]

---------------------------------------------------------------------------
(* DataValidator: the cleaning stages.                                     *)

\* the sentinel list cut to the two markers its comment names
invalid_positions_short == <<Str(TxtGai), Str(TxtKeshi)>>

invalid_positions == <<Str(TxtGai), Str(TxtKeshi), Str(TxtDQ), Str(TxtDNS)>>

\* Series.isin(list)
isin(c, list) == \E i \in 1..Len(list) : list[i] = c

numeric_columns ==
    {"age", "horse_weight", "weight_carried", "distance",
     "field_size", "popularity", "odds",
     "last_race_distance", "last_race_field_size",
     "second_last_distance", "second_last_field_size",
     "third_last_distance", "third_last_field_size"}

string_columns ==
    {"horse_name", "jockey_name", "trainer_name",
     "track_name", "race_class", "track_condition",
     "weather", "gender"}

\* the keys of position_replacements
position_replacement_columns ==
    {"last_race_corner2", "last_race_corner3", "last_race_corner4",
     "last_race_final_furlong_rank",
     "second_last_corner2", "second_last_corner3", "second_last_corner4",
     "second_last_final_furlong_rank",
     "third_last_corner2", "third_last_corner3", "third_last_corner4",
     "third_last_final_furlong_rank"}

\* the value position_replacements puts in place of NaN
WorstRank == 18

essential_columns == {"horse_name", "track_name", "distance"}

WeightMin == NumI(300)
WeightMax == NumI(700)
OddsMin == NumI(1)
OddsMax == Num(9999, 10)
DistanceMin == NumI(800)
DistanceMax == NumI(4000)

(* _remove_invalid_positions: finishing_position is coerced to a number,   *)
(* the rows left without one are dropped and the column is cast to int     *)
(* (astype(int) raises on a non-finite value); then the rows whose         *)
(* raw_finishing_position is a sentinel are dropped.                       *)
remove_invalid_positions(T) ==
    LET t1 == IF "finishing_position" \in T.cols
              THEN LET kept == dropna(MapCol(T, "finishing_position", ToNumeric),
                                      {"finishing_position"})
                   IN  IF ColHas(kept, "finishing_position", LAMBDA c : c.t = "inf")
                       THEN Raised("ValueError")
                       ELSE MapCol(kept, "finishing_position", AsInt)
              ELSE T
    IN  IF IsRaised(t1) THEN t1
        ELSE IF "raw_finishing_position" \in t1.cols
             THEN FilterRows(t1, LAMBDA r :
                      ~ isin(r.c["raw_finishing_position"], invalid_positions))
             ELSE t1

(* what _remove_invalid_positions assigns to the columns of its copy       *)
(* before dropna rebinds df_copy to a new table                            *)
remove_invalid_positions_written(T) ==
    IF "finishing_position" \in T.cols
    THEN MapCol(T, "finishing_position", ToNumeric)
    ELSE T

\* _remove_invalid_positions returns a table other than its copy
remove_invalid_positions_rebinds(T) ==
    "finishing_position" \in T.cols \/ "raw_finishing_position" \in T.cols

\* _remove_outliers returns a table other than its copy
remove_outliers_rebinds(T) == T.cols \cap {"horse_weight", "odds", "distance"} # {}

(* _standardize_data_types: to_numeric on the numeric allow-list and       *)
(* astype(str) on the text allow-list, for the columns that exist.         *)
standardize_data_types(T) ==
    [cols |-> T.cols,
     rows |-> [i \in 1..Len(T.rows) |->
                 [id |-> T.rows[i].id,
                  c  |-> [k \in T.cols |->
                            IF k \in numeric_columns THEN ToNumeric(T.rows[i].c[k])
                            ELSE IF k \in string_columns THEN AsStrIn(T, k, T.rows[i].c[k])
                            ELSE T.rows[i].c[k]]]]]

\* the replacements applied one after the other: "0", once missing, gets 18
ReplacePosition_chained(c) ==
    IF c = Str(TxtZero) \/ isna(c) THEN NumI(WorstRank) ELSE c

(* df.replace(position_replacements): in a listed column the text "0"      *)
(* becomes the empty text and NaN becomes 18; both are matched against the *)
(* cell as it was before the call.                                         *)
ReplacePosition(c) ==
    IF c = Str(TxtZero) THEN Str(TxtEmpty)
    ELSE IF isna(c) THEN NumI(WorstRank)
    ELSE c

\* df.replace('', np.nan) on one cell
ReplaceEmpty(c) == IF c = Str(TxtEmpty) THEN NaN ELSE c

(* _handle_missing_values *)
handle_missing_values(T) ==
    LET replaced ==
            [cols |-> T.cols,
             rows |-> [i \in 1..Len(T.rows) |->
                         [id |-> T.rows[i].id,
                          c  |-> [k \in T.cols |->
                                    ReplaceEmpty(
                                      IF k \in position_replacement_columns
                                      THEN ReplacePosition(T.rows[i].c[k])
                                      ELSE T.rows[i].c[k])]]]]
        existing_essential == essential_columns \cap T.cols
    IN  IF existing_essential # {} THEN dropna(replaced, existing_essential)
        ELSE replaced

\* (s >= lo) & (s <= hi) on one cell: False for NaN and for +-inf
InRange(c, lo, hi) == IsNum(c) /\ LeQ(lo, c) /\ LeQ(c, hi)

(* One range filter of _remove_outliers.  Comparing a text cell with a     *)
(* number raises TypeError.                                                *)
RangeFilter(T, col, lo, hi) ==
    IF IsRaised(T) \/ col \notin T.cols THEN T
    ELSE IF ColHas(T, col, IsStr) THEN Raised("TypeError")
    ELSE FilterRows(T, LAMBDA r : InRange(r.c[col], lo, hi))

(* _remove_outliers *)
remove_outliers(T) ==
    RangeFilter(
      RangeFilter(
        RangeFilter(T, "horse_weight", WeightMin, WeightMax),
        "odds", OddsMin, OddsMax),
      "distance", DistanceMin, DistanceMax)

(* validate_and_clean: the four stages in order; an exception ends the call *)
validate_and_clean(T) ==
    LET t1 == remove_invalid_positions(T)
        t2 == IF IsRaised(t1) THEN t1 ELSE standardize_data_types(t1)
        t3 == IF IsRaised(t2) THEN t2 ELSE handle_missing_values(t2)
    IN  IF IsRaised(t3) THEN t3 ELSE remove_outliers(t3)

---------------------------------------------------------------------------
(* The cleaner as a state machine: validate_and_clean runs its four stages *)
(* on a working copy df of the caller's table input; prev is the table the *)
(* last stage received.  After the first call the cleaner is called again  *)
(* on its own output (run = 2), first holding the output of the first call.*)

NoTable == [cols |-> {}, rows |-> << >>]
NoReport == [valid |-> TRUE, violations |-> {}]

TxtH == <<72>>
TxtM == <<77>>
TxtThree == <<51>>
TxtTokyo == <<84, 111, 107, 121, 111>>

CleanUniverse ==
    {"finishing_position", "raw_finishing_position", "horse_name", "distance",
     "horse_weight", "odds", "gender", "last_race_corner3"}

\* a well-formed raw row: the cell of column col in row i
CleanBase(col, i) ==
    CASE col = "finishing_position" -> NumI(i)
      [] col = "raw_finishing_position" -> Str(NatToTxt(i))
      [] col = "horse_name" -> Str(TxtH)
      [] col = "distance" -> NumI(1600)
      [] col = "horse_weight" -> NumI(450)
      [] col = "odds" -> Num(5, 2)
      [] col = "gender" -> Str(TxtM)
      [] col = "last_race_corner3" -> Str(TxtThree)

\* the cells a raw row may hold instead of the well-formed one
CleanDefects ==
    << [col |-> "finishing_position", v |-> Num(5, 2)],
       [col |-> "finishing_position", v |-> Str(TxtThree)],
       [col |-> "finishing_position", v |-> Str(TxtGai)],
       [col |-> "finishing_position", v |-> Str(TxtInf)],
       [col |-> "finishing_position", v |-> NaN],
       [col |-> "raw_finishing_position", v |-> Str(TxtGai)],
       [col |-> "raw_finishing_position", v |-> Str(TxtKeshi)],
       [col |-> "raw_finishing_position", v |-> Str(TxtDQ)],
       [col |-> "raw_finishing_position", v |-> Str(TxtDNS)],
       [col |-> "raw_finishing_position", v |-> NaN],
       [col |-> "horse_name", v |-> Str(TxtEmpty)],
       [col |-> "horse_name", v |-> NaN],
       [col |-> "horse_name", v |-> NumI(7)],
       [col |-> "distance", v |-> NumI(799)],
       [col |-> "distance", v |-> NumI(800)],
       [col |-> "distance", v |-> NumI(4000)],
       [col |-> "distance", v |-> NumI(4001)],
       [col |-> "distance", v |-> NaN],
       [col |-> "distance", v |-> Str(TxtGai)],
       [col |-> "horse_weight", v |-> NumI(250)],
       [col |-> "horse_weight", v |-> NumI(300)],
       [col |-> "horse_weight", v |-> NumI(700)],
       [col |-> "horse_weight", v |-> NumI(701)],
       [col |-> "horse_weight", v |-> NaN],
       [col |-> "horse_weight", v |-> Str(TxtGai)],
       [col |-> "horse_weight", v |-> Str(TxtInf)],
       [col |-> "odds", v |-> Num(9, 10)],
       [col |-> "odds", v |-> NumI(1)],
       [col |-> "odds", v |-> Num(9999, 10)],
       [col |-> "odds", v |-> NumI(1000)],
       [col |-> "odds", v |-> NaN],
       [col |-> "odds", v |-> Str(TxtGai)],
       [col |-> "gender", v |-> Str(TxtEmpty)],
       [col |-> "gender", v |-> NaN],
       [col |-> "last_race_corner3", v |-> Str(TxtZero)],
       [col |-> "last_race_corner3", v |-> Str(TxtEmpty)],
       [col |-> "last_race_corner3", v |-> Str(TxtGai)],
       [col |-> "last_race_corner3", v |-> NumI(0)],
       [col |-> "last_race_corner3", v |-> NaN] >>

\* row i of a raw table over the columns cols: well-formed (k = 0) or with
\* defect k
CleanRow(cols, i, k) ==
    [id |-> i,
     c  |-> [col \in cols |->
               IF k > 0 /\ CleanDefects[k].col = col THEN CleanDefects[k].v
               ELSE CleanBase(col, i)]]

(* The raw tables: every column of the universe and at most one defect in  *)
(* each row, or one column absent and at most one defect, in the first     *)
(* row.  The stages treat the rows one by one, so the tables are generated *)
(* up to the order of their defects.                                       *)
InitClean ==
    /\ \E n \in 0..MaxRows :
       \E ks \in [1..n -> 0..Len(CleanDefects)] :
       \E drop \in {{}} \cup {{col} : col \in CleanUniverse} :
          /\ \A i \in 1..n : \A j \in 1..n : i < j => ks[i] >= ks[j]
          /\ \A i \in 1..n :
                IF drop = {} \/ ks[i] = 0 THEN TRUE
                ELSE i = 1 /\ CleanDefects[ks[i]].col \notin drop
          /\ input = [cols |-> CleanUniverse \ drop,
                      rows |-> [i \in 1..n |-> CleanRow(CleanUniverse \ drop, i, ks[i])]]
    /\ df = input
    /\ prev = input
    /\ pc = "positions"
    /\ err = "none"
    /\ run = 1
    /\ first = NoTable
    /\ report = NoReport
    /\ alias = copy(TRUE)

(* One stage of a call: df becomes the stage's output, or the call ends    *)
(* with the exception the stage raised.                                    *)
(* The stage takes df_copy = df.copy(), assigns columns of df_copy, which  *)
(* leaves it as written, and returns df_copy or, if it rebinds, a new      *)
(* table.                                                                  *)
StageStep(next, out, written, rebinds) ==
    /\ IF IsRaised(out)
       THEN /\ err' = out.raised
            /\ pc' = "raised"
            /\ df' = df
            /\ alias' = alias
       ELSE /\ df' = out
            /\ pc' = next
            /\ err' = err
            /\ alias' = IF rebinds THEN FALSE ELSE copy(alias)
    /\ input' = IF copy(alias) THEN written ELSE input
    /\ prev' = df
    /\ UNCHANGED <<run, first, report>>

RemoveInvalidPositions ==
    /\ pc = "positions"
    /\ StageStep("types", remove_invalid_positions(df),
                 remove_invalid_positions_written(df), remove_invalid_positions_rebinds(df))

StandardizeDataTypes ==
    /\ pc = "types"
    /\ StageStep("missing", standardize_data_types(df), standardize_data_types(df), FALSE)

HandleMissingValues ==
    /\ pc = "missing"
    /\ StageStep("outliers", handle_missing_values(df), df, TRUE)

RemoveOutliers ==
    /\ pc = "outliers"
    /\ StageStep("cleaned", remove_outliers(df), df, remove_outliers_rebinds(df))

\* validate_and_clean is called on the table the first call returned
CleanAgain ==
    /\ pc = "cleaned"
    /\ run = 1
    /\ first' = df
    /\ input' = df
    /\ prev' = df
    /\ run' = 2
    /\ pc' = "positions"
    /\ alias' = copy(TRUE)
    /\ UNCHANGED <<df, err, report>>

NextClean ==
    \/ RemoveInvalidPositions
    \/ StandardizeDataTypes
    \/ HandleMissingValues
    \/ RemoveOutliers
    \/ CleanAgain

Spec == InitClean /\ [][NextClean]_vars

---------------------------------------------------------------------------
(* DataValidator.validate_race_data, the structural validator.  report is  *)
(* [valid, violations]: the value returned and the kinds of the messages   *)
(* appended to validation_results.                                         *)

\* Series.duplicated().any(): two cells of the column are equal (NaN
\* counts as equal to NaN)
AnyDuplicated(T, col) ==
    \E i \in 1..Len(T.rows) : \E j \in 1..Len(T.rows) :
        i < j /\ T.rows[i].c[col] = T.rows[j].c[col]

\* Series.max(): the largest number of the column, NaN when it holds none
SeriesMax(T, col) ==
    LET nums == {i \in 1..Len(T.rows) : IsNum(T.rows[i].c[col])}
    IN  IF nums = {} THEN NaN
        ELSE T.rows[CHOOSE i \in nums :
                        \A j \in nums : LeQ(T.rows[j].c[col], T.rows[i].c[col])].c[col]

\* a != b on two cells: NaN differs from everything, itself included
CellNe(a, b) == isna(a) \/ isna(b) \/ a # b

required_columns == {"horse_number", "horse_name"}

validate_race_data(T) ==
    LET missing == {"missing_" \o col : col \in required_columns \ T.cols}
        dup == IF "horse_number" \in T.cols /\ AnyDuplicated(T, "horse_number")
               THEN {"duplicate_horse_number"} ELSE {}
        size == IF "field_size" \in T.cols /\ "horse_number" \in T.cols
                THEN LET max_horse_number == SeriesMax(T, "horse_number")
                         declared_field_size ==
                             IF Len(T.rows) > 0 THEN T.rows[1].c["field_size"]
                             ELSE NumI(0)
                     IN  IF CellNe(max_horse_number, declared_field_size)
                         THEN {"field_size_mismatch"} ELSE {}
                ELSE {}
        validation_results == missing \cup dup \cup size
    IN  [valid |-> validation_results = {}, violations |-> validation_results]

\* races and horse numbers of the generated race tables
MaxRaces == 2
MaxHorse == 3

RaceUniverse == {"race_id", "horse_number", "horse_name", "field_size"}

TxtR == <<82>>

RaceRow(cols, i, race, num, size) ==
    [id |-> i,
     c  |-> [col \in cols |->
               CASE col = "race_id" -> Str(TxtR \o NatToTxt(race))
                 [] col = "horse_number" -> NumI(num)
                 [] col = "horse_name" -> Str(TxtH \o NatToTxt(i))
                 [] col = "field_size" -> NumI(size)]]

InitRace ==
    /\ \E n \in 0..MaxRows :
       \E races \in [1..n -> 1..MaxRaces] :
       \E nums \in [1..n -> 1..MaxHorse] :
       \E sizes \in [1..n -> 1..MaxHorse] :
       \E drop \in {{}} \cup {{col} : col \in RaceUniverse} :
          input = [cols |-> RaceUniverse \ drop,
                   rows |-> [i \in 1..n |->
                               RaceRow(RaceUniverse \ drop, i,
                                       races[i], nums[i], sizes[i])]]
    /\ df = input
    /\ prev = input
    /\ pc = "validate"
    /\ err = "none"
    /\ run = 1
    /\ first = NoTable
    /\ report = NoReport
    /\ alias = copy(TRUE)

ValidateRaceData ==
    /\ pc = "validate"
    /\ report' = validate_race_data(df)
    /\ pc' = "validated"
    /\ UNCHANGED <<input, df, prev, err, run, first, alias>>

NextRace == ValidateRaceData

SpecRaceData == InitRace /\ [][NextRace]_vars

---------------------------------------------------------------------------
(* FeatureEngineer: the derivation stages.                                 *)

(* Arithmetic between two columns, cell by cell: where either cell is      *)
(* missing the result is missing; a text operand raises TypeError.         *)
PyArith(a, b, r) ==
    IF a.t = "err" THEN a
    ELSE IF b.t = "err" THEN b
    ELSE IF isna(a) \/ isna(b) THEN NaN
    ELSE IF IsStr(a) \/ IsStr(b) THEN Err("TypeError")
    ELSE r

PyAdd(a, b) == PyArith(a, b, Add(a, b))
PySub(a, b) == PyArith(a, b, Sub(a, b))
PyMul(a, b) == PyArith(a, b, Mul(a, b))
PyDiv(a, b) == PyArith(a, b, Div(a, b))

\* a full-width digit (U+FF10..U+FF19) as its ASCII digit
DigitFold(s) ==
    [i \in 1..Len(s) |-> IF s[i] \in 65296..65305 THEN s[i] - 65248 ELSE s[i]]

(* float(x) of one cell, as astype(float) applies it to an object column:  *)
(* Python's float accepts decimal digits of any script, nan and inf, and   *)
(* raises ValueError for every other text.                                 *)
AsFloat(c) ==
    IF IsStr(c)
    THEN LET f == DigitFold(c.s)
         IN  IF IsDecimal(f) THEN DecimalValue(f)
             ELSE IF f = TxtInf THEN Inf(1)
             ELSE IF f = TxtNan THEN NaN
             ELSE Err("ValueError")
    ELSE c

(* series + '_': a column without text is numeric and the addition raises; *)
(* in an object column a missing cell stays missing and a number raises.   *)
ConcatUnderscore(T, col, c) ==
    IF ~ IsObjectCol(T, col) THEN Err("TypeError")
    ELSE IF isna(c) THEN NaN
    ELSE IF IsStr(c) THEN Str(c.s \o TxtUnderscore)
    ELSE Err("TypeError")

\* the + of two object columns on one row
PyConcat(a, b) ==
    IF a.t = "err" THEN a
    ELSE IF b.t = "err" THEN b
    ELSE IF isna(a) \/ isna(b) THEN NaN
    ELSE IF IsStr(a) /\ IsStr(b) THEN Str(a.s \o b.s)
    ELSE Err("TypeError")

ColVals(T, col) == [i \in 1..Len(T.rows) |-> T.rows[i].c[col]]

date_columns == {"race_date", "last_race_date", "second_last_race_date", "third_last_race_date"}

\* col.replace('_date', '_month'), and back
MonthColumn(col) ==
    CASE col = "race_date" -> "race_month"
      [] col = "last_race_date" -> "last_race_month"
      [] col = "second_last_race_date" -> "second_last_race_month"
      [] col = "third_last_race_date" -> "third_last_race_month"

DateColumn(month) == CHOOSE col \in date_columns : MonthColumn(col) = month

\* a date written YYYY-MM-DD
IsDateTxt(s) ==
    /\ Len(s) = 10
    /\ s[5] = 45 /\ s[8] = 45
    /\ AllDigits(SubSeq(s, 1, 4)) /\ AllDigits(SubSeq(s, 6, 7)) /\ AllDigits(SubSeq(s, 9, 10))
    /\ DigitsValue(SubSeq(s, 6, 7)) \in 1..12
    /\ DigitsValue(SubSeq(s, 9, 10)) \in 1..31

(* _extract_month_from_date on one cell: pd.to_datetime(errors='coerce')   *)
(* and .dt.month; what does not parse as a date gives NaN.  The dates      *)
(* modelled are the texts YYYY-MM-DD.                                      *)
extract_month_from_date(c) ==
    IF IsStr(c) /\ IsDateTxt(c.s) THEN NumI(DigitsValue(SubSeq(c.s, 6, 7))) ELSE NaN

\* the month columns of the date columns that exist
MonthFeatures(T) ==
    LET months == {MonthColumn(col) : col \in date_columns \cap T.cols}
    IN  [cols |-> T.cols \cup months,
         rows |-> [i \in 1..Len(T.rows) |->
                     [id |-> T.rows[i].id,
                      c  |-> [k \in T.cols \cup months |->
                                IF k \in months
                                THEN extract_month_from_date(T.rows[i].c[DateColumn(k)])
                                ELSE T.rows[i].c[k]]]]]

MonthGenderCombination(T) ==
    IF "race_month" \in T.cols /\ "gender" \in T.cols
    THEN WithCol(T, "month_gender_combination",
             [i \in 1..Len(T.rows) |->
                 Str(AsStrIn(T, "race_month", T.rows[i].c["race_month"]).s
                     \o TxtUnderscore
                     \o AsStrIn(T, "gender", T.rows[i].c["gender"]).s)])
    ELSE T

MonthAgeCombination(T) ==
    IF IsRaised(T) THEN T
    ELSE IF "race_month" \in T.cols /\ "age" \in T.cols
    THEN WithCol(T, "month_age_combination",
             [i \in 1..Len(T.rows) |->
                 PyAdd(T.rows[i].c["race_month"], T.rows[i].c["age"])])
    ELSE T

(* _create_temporal_features *)
create_temporal_features(T) ==
    MonthAgeCombination(MonthGenderCombination(MonthFeatures(T)))

position_features == {"last_race_position", "second_last_position", "third_last_position"}

\* the map cut to the full-width digits
Translate_digits(s) ==
    [i \in 1..Len(s) |-> IF s[i] \in 65296..65305 THEN s[i] - 65248 ELSE s[i]]

\* str.translate of the map chr(0xFF01 + i) -> chr(0x21 + i), i in range(94)
Translate(s) ==
    [i \in 1..Len(s) |-> IF s[i] \in 65281..65374 THEN s[i] - 65248 ELSE s[i]]

(* _convert_position_to_numeric on the cell c of column col *)
convert_position_to_numeric(T, col, c) ==
    ToNumeric(Str(Translate(AsStrIn(T, col, c).s)))

PositionFeatures(T) ==
    [cols |-> T.cols,
     rows |-> [i \in 1..Len(T.rows) |->
                 [id |-> T.rows[i].id,
                  c  |-> [k \in T.cols |->
                            IF k \in position_features
                            THEN convert_position_to_numeric(T, k, T.rows[i].c[k])
                            ELSE T.rows[i].c[k]]]]]

\* the weight of the corner rank in the combined score
CornerWeight == Num(4, 5)

\* corner.astype(float) * 0.8 + uphill.astype(float) on one row
CornerUphill(corner, uphill) ==
    LET a == AsFloat(corner)
        b == AsFloat(uphill)
    IN  IF a.t = "err" THEN a
        ELSE IF b.t = "err" THEN b
        ELSE Add(Mul(a, CornerWeight), b)

CornerUphillCombined(T, corner_col, uphill_col) ==
    IF IsRaised(T) THEN T
    ELSE IF corner_col \in T.cols /\ uphill_col \in T.cols
    THEN WithCol(T, corner_col \o "_uphill_combined",
             [i \in 1..Len(T.rows) |->
                 CornerUphill(T.rows[i].c[corner_col], T.rows[i].c[uphill_col])])
    ELSE T

(* popularity_performance_gap: the guard names last_race_popularity and    *)
(* last_race_position; the expression also reads last_race_field_size.     *)
PopularityPerformanceGap(T) ==
    IF IsRaised(T) THEN T
    ELSE IF "last_race_popularity" \in T.cols /\ "last_race_position" \in T.cols
    THEN LET gap == [i \in 1..Len(T.rows) |->
                        PySub(T.rows[i].c["last_race_popularity"],
                              T.rows[i].c["last_race_position"])]
         IN  IF HasErr(gap) THEN Raised(FirstErr(gap))
             ELSE IF "last_race_field_size" \notin T.cols THEN Raised("KeyError")
             ELSE WithCol(T, "popularity_performance_gap",
                      [i \in 1..Len(T.rows) |->
                          PyDiv(gap[i], T.rows[i].c["last_race_field_size"])])
    ELSE T

(* _create_performance_features *)
create_performance_features(T) ==
    PopularityPerformanceGap(
      CornerUphillCombined(
        CornerUphillCombined(
          CornerUphillCombined(PositionFeatures(T),
            "last_race_corner3", "last_race_final_furlong_rank"),
          "second_last_corner3", "second_last_final_furlong_rank"),
        "third_last_corner3", "third_last_final_furlong_rank"))

WeightBurdenRatio(T) ==
    IF "weight_carried" \in T.cols /\ "horse_weight" \in T.cols
    THEN WithCol(T, "weight_burden_ratio",
             [i \in 1..Len(T.rows) |->
                 PyMul(PyDiv(T.rows[i].c["weight_carried"], T.rows[i].c["horse_weight"]),
                       NumI(100))])
    ELSE T

FieldSizeChange(T) ==
    IF IsRaised(T) THEN T
    ELSE IF "field_size" \in T.cols /\ "last_race_field_size" \in T.cols
    THEN WithCol(T, "field_size_change",
             [i \in 1..Len(T.rows) |->
                 PySub(T.rows[i].c["field_size"], T.rows[i].c["last_race_field_size"])])
    ELSE T

DistanceChange(T) ==
    IF IsRaised(T) THEN T
    ELSE IF "distance" \in T.cols /\ "last_race_distance" \in T.cols
    THEN WithCol(T, "distance_change",
             [i \in 1..Len(T.rows) |->
                 PySub(AsFloat(T.rows[i].c["distance"]),
                       AsFloat(T.rows[i].c["last_race_distance"]))])
    ELSE T

(* _create_physical_features *)
create_physical_features(T) ==
    DistanceChange(FieldSizeChange(WeightBurdenRatio(T)))

TrackDistanceCombination(T) ==
    IF "track_name" \in T.cols /\ "distance" \in T.cols
    THEN WithCol(T, "track_distance_combination",
             [i \in 1..Len(T.rows) |->
                 PyConcat(ConcatUnderscore(T, "track_name", T.rows[i].c["track_name"]),
                          AsStrIn(T, "distance", T.rows[i].c["distance"]))])
    ELSE T

TrackPerformanceCombination(T, perf_col, new_col) ==
    IF IsRaised(T) THEN T
    ELSE IF "track_name" \in T.cols /\ perf_col \in T.cols
    THEN WithCol(T, new_col,
             [i \in 1..Len(T.rows) |->
                 PyConcat(ConcatUnderscore(T, "track_name", T.rows[i].c["track_name"]),
                          AsStrIn(T, perf_col, T.rows[i].c[perf_col]))])
    ELSE T

ClassProgression(T) ==
    IF IsRaised(T) THEN T
    ELSE IF "class_name" \in T.cols /\ "last_race_class" \in T.cols
    THEN WithCol(T, "class_progression",
             [i \in 1..Len(T.rows) |->
                 PyConcat(ConcatUnderscore(T, "class_name", T.rows[i].c["class_name"]),
                          T.rows[i].c["last_race_class"])])
    ELSE T

(* _create_race_condition_features *)
create_race_condition_features(T) ==
    ClassProgression(
      TrackPerformanceCombination(
        TrackPerformanceCombination(
          TrackPerformanceCombination(TrackDistanceCombination(T),
            "last_race_corner3", "track_last_corner3"),
          "last_race_corner4", "track_last_corner4"),
        "last_race_final_furlong_rank", "track_last_uphill"))

(* _create_interaction_features *)
create_interaction_features(T) ==
    IF "track_name" \in T.cols /\ "last_race_track" \in T.cols
    THEN WithCol(T, "track_last_track_combination",
             [i \in 1..Len(T.rows) |->
                 PyConcat(ConcatUnderscore(T, "track_name", T.rows[i].c["track_name"]),
                          T.rows[i].c["last_race_track"])])
    ELSE T

(* Normalization.  A deviation score 50 + 10 * (x - mean) / std is kept    *)
(* exactly, as the cell [t |-> "dev", sg, qn, qd] that stands for          *)
(* 50 + 10 * sg * sqrt(qn / qd), where qn / qd = (x - mean)^2 / std^2.     *)

zscore_features ==
    {"age", "horse_weight", "weight_burden_ratio",
     "last_race_corner3", "last_race_corner4", "last_race_final_furlong_rank",
     "last_race_time_difference", "last_race_horse_weight",
     "second_last_corner3", "second_last_corner4", "second_last_final_furlong_rank",
     "second_last_time_difference", "second_last_horse_weight",
     "third_last_corner3", "third_last_corner4", "third_last_final_furlong_rank",
     "third_last_time_difference", "third_last_horse_weight"}

index_features ==
    {"leading_index_last", "pace_index_last", "uphill_index_last", "speed_index_last",
     "leading_index_second", "pace_index_second", "uphill_index_second", "speed_index_second",
     "leading_index_third", "pace_index_third", "uphill_index_third", "speed_index_third"}

\* zscore_features after zscore_features.extend(index_features)
Catalogue == zscore_features \cup index_features

\* the group cut to the rows up to row i: statistics taken while the rows
\* are rescaled one after the other
RaceGroup_prefix(T, i) ==
    IF isna(T.rows[i].c["race_id"]) THEN {}
    ELSE {j \in 1..i : T.rows[j].c["race_id"] = T.rows[i].c["race_id"]}

\* the rows of the group of row i under groupby('race_id'): a row whose
\* key is missing belongs to no group
RaceGroup(T, i) ==
    IF isna(T.rows[i].c["race_id"]) THEN {}
    ELSE {j \in 1..Len(T.rows) : T.rows[j].c["race_id"] = T.rows[i].c["race_id"]}

AllRows(T) == 1..Len(T.rows)

\* the rows of G whose cell of col is not missing: mean and std skip NaN
Valid(T, col, G) == {j \in G : ~ isna(T.rows[j].c[col])}

RECURSIVE SumOf(_, _, _)
SumOf(T, col, G) ==
    IF G = {} THEN NumI(0)
    ELSE LET j == CHOOSE j \in G : TRUE
         IN  Add(T.rows[j].c[col], SumOf(T, col, G \ {j}))

\* the sum over G of the squared deviations from mean
RECURSIVE SumSqDevOf(_, _, _, _)
SumSqDevOf(T, col, G, mean) ==
    IF G = {} THEN NumI(0)
    ELSE LET j == CHOOSE j \in G : TRUE
             d == Sub(T.rows[j].c[col], mean)
         IN  Add(Mul(d, d), SumSqDevOf(T, col, G \ {j}, mean))

\* mean of the column over the rows G: NaN when no cell is present
MeanOf(T, col, G) ==
    LET V == Valid(T, col, G)
    IN  IF V = {} THEN NaN ELSE Div(SumOf(T, col, V), NumI(Cardinality(V)))

\* the variance with the divisor n in place of n - 1 (ddof = 0)
VarOf_population(T, col, G) ==
    LET V == Valid(T, col, G)
        n == Cardinality(V)
        sum == SumOf(T, col, V)
    IN  IF n < 2 THEN NaN
        ELSE Div(SumSqDevOf(T, col, V, Div(sum, NumI(n))), NumI(n))

\* std(ddof=1) squared: NaN with fewer than two cells present
VarOf(T, col, G) ==
    LET V == Valid(T, col, G)
        n == Cardinality(V)
        sum == SumOf(T, col, V)
    IN  IF n < 2 THEN NaN
        ELSE Div(SumSqDevOf(T, col, V, Div(sum, NumI(n))), NumI(n - 1))

\* (x - mean) / std * 10 + 50
DeviationScore(x, mean, var) ==
    LET d == Sub(x, mean)
        z2 == Div(Mul(d, d), var)
    IN  IF isna(d) \/ isna(var) \/ (var.t = "inf" /\ d.t = "inf") THEN NaN
        ELSE IF var.t = "inf" THEN NumI(50)
        ELSE IF IsZero(var) THEN (IF IsZero(d) THEN NaN ELSE Inf(Sign(d)))
        ELSE IF d.t = "inf" THEN Inf(Sign(d))
        ELSE IF IsZero(d) THEN NumI(50)
        ELSE [t |-> "dev", sg |-> Sign(d), qn |-> z2.n, qd |-> z2.d]

\* fillna(50) on one cell
fillna50(c) == IF isna(c) THEN NumI(50) ELSE c

(* Arithmetic is exact in this model, except where float64 rounding        *)
(* decides a comparison with zero: the mean of n equal values x is the     *)
(* rounded sum divided by n, which is x itself when x is an integer or     *)
(* n < 3, and is above x for three values 0.1, as in                       *)
(* (0.1 + 0.1 + 0.1) / 3 = 0.10000000000000002.  MeanDrift is the sign of  *)
(* mean - x for the values the generated tables hold.                      *)
Tenth == Num(1, 10)

MeanDrift(x, n) == IF x = Tenth /\ n \in {3, 6} THEN 1 ELSE 0

\* the rows G hold, where present, one and the same value of col
IsConstant(T, col, G) ==
    \A j \in Valid(T, col, G) : \A k \in Valid(T, col, G) :
        T.rows[j].c[col] = T.rows[k].c[col]

\* sign of the computed mean minus the common value of a constant group
DriftOf(T, col, G) ==
    LET V == Valid(T, col, G)
    IN  IF V = {} \/ ~ IsConstant(T, col, G) THEN 0
        ELSE LET x == T.rows[CHOOSE j \in V : TRUE].c[col]
             IN  IF IsNum(x) THEN MeanDrift(x, Cardinality(V)) ELSE 0

(* the score of row i of column col under groupby('race_id'): transform    *)
(* ('std') of equal values is exactly 0, so a mean that rounding moved     *)
(* off the common value leaves (x - mean) / 0, an infinity fillna keeps    *)
GroupScoreCell(T, col, i, G) ==
    LET x == T.rows[i].c[col]
        drift == DriftOf(T, col, G)
    IN  IF drift # 0 /\ ~ isna(x) THEN Inf(-drift)
        ELSE fillna50(DeviationScore(x, MeanOf(T, col, G), VarOf(T, col, G)))

(* the score of row i of column col under the statistics of the whole      *)
(* column: std() takes its deviations from the same rounded mean, so for   *)
(* n equal values moved off their mean (x - mean)^2 / std^2 = (n - 1) / n  *)
GlobalScoreCell(T, col, i) ==
    LET x == T.rows[i].c[col]
        G == AllRows(T)
        drift == DriftOf(T, col, G)
        n == Cardinality(Valid(T, col, G))
    IN  IF drift # 0 /\ ~ isna(x)
        THEN [t |-> "dev", sg |-> -drift, qn |-> n - 1, qd |-> n]
        ELSE fillna50(DeviationScore(x, MeanOf(T, col, G), VarOf(T, col, G)))

\* the catalogue columns the table has
existing_features(T) == Catalogue \cap T.cols

(* _calculate_zscore_by_race.  groupby(...).transform('mean') raises       *)
(* TypeError on an object column.                                          *)
calculate_zscore_by_race(T) ==
    IF \E k \in existing_features(T) : IsObjectCol(T, k) THEN Raised("TypeError")
    ELSE [cols |-> T.cols,
          rows |-> [i \in 1..Len(T.rows) |->
                      [id |-> T.rows[i].id,
                       c  |-> [k \in T.cols |->
                                 IF k \in existing_features(T)
                                 THEN GroupScoreCell(T, k, i, RaceGroup(T, i))
                                 ELSE T.rows[i].c[k]]]]]

(* _calculate_global_zscore *)
calculate_global_zscore(T) ==
    IF \E k \in existing_features(T) : IsObjectCol(T, k) THEN Raised("TypeError")
    ELSE [cols |-> T.cols,
          rows |-> [i \in 1..Len(T.rows) |->
                      [id |-> T.rows[i].id,
                       c  |-> [k \in T.cols |->
                                 IF k \in existing_features(T)
                                 THEN GlobalScoreCell(T, k, i)
                                 ELSE T.rows[i].c[k]]]]]

(* _standardize_numerical_features *)
standardize_numerical_features(T) ==
    IF "race_id" \in T.cols THEN calculate_zscore_by_race(T)
    ELSE calculate_global_zscore(T)

(* What each stage has assigned to the columns of its copy when it         *)
(* returns or raises.                                                      *)
create_temporal_written(T) ==
    LET a == MonthFeatures(T)
        b == MonthGenderCombination(a)
    IN  LastGood(<<T, a, b, MonthAgeCombination(b)>>)

create_performance_written(T) ==
    LET a == PositionFeatures(T)
        b == CornerUphillCombined(a, "last_race_corner3", "last_race_final_furlong_rank")
        c == CornerUphillCombined(b, "second_last_corner3", "second_last_final_furlong_rank")
        d == CornerUphillCombined(c, "third_last_corner3", "third_last_final_furlong_rank")
    IN  LastGood(<<T, a, b, c, d, PopularityPerformanceGap(d)>>)

create_physical_written(T) ==
    LET a == WeightBurdenRatio(T)
        b == FieldSizeChange(a)
    IN  LastGood(<<T, a, b, DistanceChange(b)>>)

create_race_condition_written(T) ==
    LET a == TrackDistanceCombination(T)
        b == TrackPerformanceCombination(a, "last_race_corner3", "track_last_corner3")
        c == TrackPerformanceCombination(b, "last_race_corner4", "track_last_corner4")
        d == TrackPerformanceCombination(c, "last_race_final_furlong_rank", "track_last_uphill")
    IN  LastGood(<<T, a, b, c, d, ClassProgression(d)>>)

create_interaction_written(T) == LastGood(<<T, create_interaction_features(T)>>)

standardize_numerical_written(T) == LastGood(<<T, standardize_numerical_features(T)>>)

(* create_features: the six stages in order; an exception ends the call    *)
create_features(T) ==
    LET t1 == create_temporal_features(T)
        t2 == IF IsRaised(t1) THEN t1 ELSE create_performance_features(t1)
        t3 == IF IsRaised(t2) THEN t2 ELSE create_physical_features(t2)
        t4 == IF IsRaised(t3) THEN t3 ELSE create_race_condition_features(t3)
        t5 == IF IsRaised(t4) THEN t4 ELSE create_interaction_features(t4)
    IN  IF IsRaised(t5) THEN t5 ELSE standardize_numerical_features(t5)

---------------------------------------------------------------------------
(* The feature engineer as a state machine: create_features runs its six   *)
(* stages on a working copy df of the caller's table input.                *)

\* values of the catalogue column of the generated group tables
MaxValue == 2

TxtDateMay == <<50, 48, 50, 52, 45, 48, 53, 45, 49, 50>>
TxtDateMarch == <<50, 48, 50, 52, 45, 48, 51, 45, 48, 57>>
TxtKyoto == <<75, 121, 111, 116, 111>>
TxtG == <<71>>
TxtBad == <<120>>
\* the full-width digits 1 2
TxtWide12 == <<65297, 65298>>
\* the full-width hyphen-minus and the full-width digit 1
TxtWideMinus1 == <<65293, 65297>>

\* the columns the derivation rules read
SourceColumns ==
    date_columns \cup position_features \cup
    {"gender", "age",
     "last_race_corner3", "last_race_final_furlong_rank",
     "second_last_corner3", "second_last_final_furlong_rank",
     "third_last_corner3", "third_last_final_furlong_rank",
     "last_race_popularity", "last_race_field_size",
     "weight_carried", "horse_weight", "field_size",
     "distance", "last_race_distance",
     "track_name", "last_race_corner4",
     "class_name", "last_race_class", "last_race_track"}

FeatUniverse == SourceColumns \cup {"race_id"}

\* a well-formed cleaned row: the cell of column col in row i
FeatBase(col, i) ==
    CASE col = "race_id" -> Str(TxtR \o NatToTxt(1))
      [] col = "race_date" -> Str(TxtDateMay)
      [] col \in date_columns \ {"race_date"} -> Str(TxtDateMarch)
      [] col = "gender" -> Str(TxtM)
      [] col = "age" -> NumI(2 + i)
      [] col = "last_race_position" -> Str(NatToTxt(i))
      [] col \in position_features \ {"last_race_position"} -> NumI(i)
      [] col \in {"last_race_corner3", "second_last_corner3", "third_last_corner3"} -> NumI(i)
      [] col = "last_race_corner4" -> NumI(i + 1)
      [] col \in {"last_race_final_furlong_rank", "second_last_final_furlong_rank",
                  "third_last_final_furlong_rank"} -> NumI(2 * i)
      [] col = "last_race_popularity" -> NumI(3)
      [] col = "last_race_field_size" -> NumI(16)
      [] col = "weight_carried" -> NumI(55)
      [] col = "horse_weight" -> NumI(400 + 40 * i)
      [] col = "field_size" -> NumI(18)
      [] col = "distance" -> NumI(1600)
      [] col = "last_race_distance" -> NumI(1400)
      [] col = "track_name" -> Str(TxtTokyo)
      [] col = "class_name" -> Str(TxtG \o NatToTxt(1))
      [] col = "last_race_class" -> Str(TxtG \o NatToTxt(2))
      [] col = "last_race_track" -> Str(TxtKyoto)

\* the cells a row may hold instead of the well-formed one
FeatDefects ==
    << [col |-> "race_id", v |-> Str(TxtR \o NatToTxt(2))],
       [col |-> "race_id", v |-> NaN],
       [col |-> "race_date", v |-> Str(TxtBad)],
       [col |-> "race_date", v |-> NaN],
       [col |-> "gender", v |-> NaN],
       [col |-> "age", v |-> Str(TxtThree)],
       [col |-> "age", v |-> Str(TxtGai)],
       [col |-> "age", v |-> NaN],
       [col |-> "last_race_position", v |-> Str(TxtWide12)],
       [col |-> "last_race_position", v |-> Str(TxtWideMinus1)],
       [col |-> "last_race_position", v |-> Str(TxtGai)],
       [col |-> "last_race_position", v |-> NaN],
       [col |-> "last_race_position", v |-> NumI(3)],
       [col |-> "last_race_corner3", v |-> Str(TxtThree)],
       [col |-> "last_race_corner3", v |-> Str(TxtGai)],
       [col |-> "last_race_corner3", v |-> NaN],
       [col |-> "last_race_corner3", v |-> NumI(18)],
       [col |-> "last_race_final_furlong_rank", v |-> Str(TxtThree)],
       [col |-> "last_race_final_furlong_rank", v |-> NaN],
       [col |-> "last_race_popularity", v |-> Str(TxtThree)],
       [col |-> "last_race_popularity", v |-> NaN],
       [col |-> "last_race_field_size", v |-> NumI(0)],
       [col |-> "last_race_field_size", v |-> NaN],
       [col |-> "last_race_field_size", v |-> Str(TxtThree)],
       [col |-> "weight_carried", v |-> NaN],
       [col |-> "weight_carried", v |-> Str(TxtGai)],
       [col |-> "horse_weight", v |-> NumI(0)],
       [col |-> "horse_weight", v |-> NaN],
       [col |-> "field_size", v |-> Str(TxtGai)],
       [col |-> "distance", v |-> Str(TxtGai)],
       [col |-> "last_race_corner4", v |-> Str(TxtGai)],
       [col |-> "last_race_distance", v |-> Str(TxtThree)],
       [col |-> "last_race_distance", v |-> NaN],
       [col |-> "track_name", v |-> NaN],
       [col |-> "track_name", v |-> NumI(7)],
       [col |-> "class_name", v |-> NaN],
       [col |-> "last_race_class", v |-> NumI(7)],
       [col |-> "last_race_class", v |-> NaN],
       [col |-> "last_race_track", v |-> NaN] >>

FeatRow(cols, i, k) ==
    [id |-> i,
     c  |-> [col \in cols |->
               IF k > 0 /\ FeatDefects[k].col = col THEN FeatDefects[k].v
               ELSE FeatBase(col, i)]]

\* row i of a group table: its race and the value of its catalogue column
\* last_race_time_difference (0 stands for a missing value, -1 for 0.1)
GroupRow(cols, i, race, val) ==
    [id |-> i,
     c  |-> [col \in cols |->
               IF col = "race_id" THEN Str(TxtR \o NatToTxt(race))
               ELSE IF val = 0 THEN NaN
               ELSE IF val = -1 THEN Tenth
               ELSE NumI(val)]]

(* The tables given to create_features: every column the rules read, with  *)
(* at most one defect in each of two rows, or one column absent and at     *)
(* most one defect, in the first row (generated up to the order of the     *)
(* defects);                                                               *)
(* and the group tables: a catalogue column, with or without race_id, of   *)
(* up to MaxRows + 1 rows, the races numbered in the order they appear.    *)
InitWide ==
    \E n \in 0..MaxRows :
    \E ks \in [1..n -> 0..Len(FeatDefects)] :
    \E drop \in {{}} \cup {{col} : col \in FeatUniverse} :
       /\ \A i \in 1..n : \A j \in 1..n : i < j => ks[i] >= ks[j]
       /\ \A i \in 1..n : i > 2 => ks[i] = 0
       /\ \A i \in 1..n :
             IF drop = {} \/ ks[i] = 0 THEN TRUE
             ELSE i = 1 /\ FeatDefects[ks[i]].col \notin drop
       /\ input = [cols |-> FeatUniverse \ drop,
                   rows |-> [i \in 1..n |-> FeatRow(FeatUniverse \ drop, i, ks[i])]]

InitGroups ==
    \E n \in 0..(MaxRows + 1) :
    \E races \in [1..n -> 1..MaxRaces] :
    \E vals \in [1..n -> -1..MaxValue] :
    \E cols \in {{"last_race_time_difference"},
                    {"last_race_time_difference", "race_id"}} :
       /\ \A i \in 1..n : races[i] = 1 \/ \E j \in 1..(i - 1) : races[j] = races[i] - 1
       /\ input = [cols |-> cols,
                   rows |-> [i \in 1..n |-> GroupRow(cols, i, races[i], vals[i])]]

InitFeatures ==
    /\ InitWide \/ InitGroups
    /\ df = input
    /\ prev = input
    /\ pc = "temporal"
    /\ err = "none"
    /\ run = 1
    /\ first = NoTable
    /\ report = NoReport
    /\ alias = copy(TRUE)

CreateTemporalFeatures ==
    /\ pc = "temporal"
    /\ StageStep("performance", create_temporal_features(df), create_temporal_written(df), FALSE)

CreatePerformanceFeatures ==
    /\ pc = "performance"
    /\ StageStep("physical", create_performance_features(df), create_performance_written(df), FALSE)

CreatePhysicalFeatures ==
    /\ pc = "physical"
    /\ StageStep("condition", create_physical_features(df), create_physical_written(df), FALSE)

CreateRaceConditionFeatures ==
    /\ pc = "condition"
    /\ StageStep("interaction", create_race_condition_features(df), create_race_condition_written(df), FALSE)

CreateInteractionFeatures ==
    /\ pc = "interaction"
    /\ StageStep("normalize", create_interaction_features(df), create_interaction_written(df), FALSE)

StandardizeNumericalFeatures ==
    /\ pc = "normalize"
    /\ StageStep("featured", standardize_numerical_features(df), standardize_numerical_written(df), FALSE)

NextFeatures ==
    \/ CreateTemporalFeatures
    \/ CreatePerformanceFeatures
    \/ CreatePhysicalFeatures
    \/ CreateRaceConditionFeatures
    \/ CreateInteractionFeatures
    \/ StandardizeNumericalFeatures

SpecFeatures == InitFeatures /\ [][NextFeatures]_vars

---------------------------------------------------------------------------
(* Properties of the cleaner (checked under Spec).                         *)

RowIxs(T) == 1..Len(T.rows)

\* the ids of the rows of T that satisfy P
IdsWhere(T, P(_)) == {T.rows[i].id : i \in {j \in RowIxs(T) : P(T.rows[j])}}

Present(T, names) == names \cap T.cols

\* the four sentinels of the raw finishing position
Sentinels == <<Str(TxtGai), Str(TxtKeshi), Str(TxtDQ), Str(TxtDNS)>>

\* the row has no usable finishing position, or a sentinel raw position
InvalidPosition(T, r) ==
    \/ /\ "finishing_position" \in T.cols
       /\ isna(ToNumeric(r.c["finishing_position"]))
    \/ /\ "raw_finishing_position" \in T.cols
       /\ isin(r.c["raw_finishing_position"], Sentinels)

\* C3: validate_and_clean is idempotent: cleaning the output of a first
\* call again returns a table with the same rows, columns and cell values.
C3_Idempotent == (pc = "cleaned" /\ run = 2) => df = first

\* the fixed ranges of the bounded columns
Ranges ==
    << [col |-> "horse_weight", lo |-> NumI(300), hi |-> NumI(700)],
       [col |-> "odds", lo |-> NumI(1), hi |-> Num(9999, 10)],
       [col |-> "distance", lo |-> NumI(800), hi |-> NumI(4000)] >>

\* the cell holds a value, and the value lies outside [lo, hi]
OutOfRange(c, lo, hi) == c.t = "inf" \/ (IsNum(c) /\ ~ (LeQ(lo, c) /\ LeQ(c, hi)))

HoldsOutlier(T, r) ==
    \E b \in 1..Len(Ranges) :
        /\ Ranges[b].col \in T.cols
        /\ OutOfRange(r.c[Ranges[b].col], Ranges[b].lo, Ranges[b].hi)

\* C6: the outlier stage removes a row if and only if one of the bounded
\* columns present holds a value outside its fixed range.
C6_OutlierIff ==
    pc = "cleaned" =>
        Ids(df) = IdsWhere(prev, LAMBDA r : ~ HoldsOutlier(prev, r))

\* C7: every input row with a missing horse_name, track_name or distance is
\* absent from the output, and no output row carries a missing value or a
\* textual stand-in for one in an essential column.
C7_EssentialPresent ==
    (pc = "cleaned" /\ run = 1) =>
        /\ \A i \in RowIxs(input) :
              (\E k \in Present(input, {"horse_name", "track_name", "distance"}) :
                    isna(input.rows[i].c[k]))
              => input.rows[i].id \notin Ids(df)
        /\ \A j \in RowIxs(df) :
              \A k \in Present(df, {"horse_name", "track_name", "distance"}) :
                    /\ ~ isna(df.rows[j].c[k])
                    /\ df.rows[j].c[k] # Str(TxtNan)

\* the row-level defects of a raw row: no finishing position, a sentinel raw
\* position, a missing essential column, an out-of-range bounded value
RowLevelDefect(T, r) ==
    \/ InvalidPosition(T, r)
    \/ \E k \in Present(T, {"horse_name", "track_name", "distance"}) :
          \/ isna(r.c[k])
          \/ r.c[k] = Str(TxtEmpty)
          \/ k = "distance" /\ isna(ToNumeric(r.c[k]))
    \/ \E b \in 1..Len(Ranges) :
          /\ Ranges[b].col \in T.cols
          /\ OutOfRange(ToNumeric(r.c[Ranges[b].col]), Ranges[b].lo, Ranges[b].hi)

\* C8: a row is dropped only for a row-level defect: a raw row without one,
\* whatever its horse_weight and odds cells hold, is in the output, a
\* malformed horse_weight or odds cell being missing there.
C8_DroppedOnlyForRowDefect ==
    (pc = "cleaned" /\ run = 1) =>
        \A i \in RowIxs(input) :
            ~ RowLevelDefect(input, input.rows[i]) =>
                /\ input.rows[i].id \in Ids(df)
                /\ \A k \in Present(input, {"horse_weight", "odds"}) :
                      isna(ToNumeric(input.rows[i].c[k]))
                      => isna(RowOf(df, input.rows[i].id).c[k])

\* C9: after the position stage no row remains whose finishing_position
\* failed numeric coercion or whose raw_finishing_position is a sentinel,
\* every other row is kept as it was, and every finishing_position that
\* remains is an integer.
C9_PositionStage ==
    pc = "types" =>
        /\ df.cols = prev.cols
        /\ Ids(df) = IdsWhere(prev, LAMBDA r : ~ InvalidPosition(prev, r))
        /\ \A j \in RowIxs(df) :
              /\ \A k \in df.cols \ {"finishing_position"} :
                    df.rows[j].c[k] = RowOf(prev, df.rows[j].id).c[k]
              /\ "finishing_position" \in df.cols =>
                    /\ IsNum(df.rows[j].c["finishing_position"])
                    /\ df.rows[j].c["finishing_position"].d = 1

\* a table with a row dropped for a sentinel and a row kept whose position
\* 2.5 became the integer 2
C9_Witness ==
    /\ pc = "types"
    /\ "finishing_position" \in prev.cols
    /\ "raw_finishing_position" \in prev.cols
    /\ \E i \in RowIxs(prev) :
          /\ prev.rows[i].c["raw_finishing_position"] = Str(TxtDNS)
          /\ prev.rows[i].id \notin Ids(df)
    /\ \E j \in RowIxs(df) :
          /\ RowOf(prev, df.rows[j].id).c["finishing_position"] = Num(5, 2)
          /\ df.rows[j].c["finishing_position"] = NumI(2)

---------------------------------------------------------------------------
(* Properties of the structural validator (checked under SpecRaceData).    *)

SameRace(T, i, j) ==
    "race_id" \in T.cols => T.rows[i].c["race_id"] = T.rows[j].c["race_id"]

\* C4: horse-number uniqueness is judged per race group: a duplicate
\* violation is reported, and false returned, exactly when two rows of the
\* same race_id share a horse_number.
C4_DuplicatePerRace ==
    (pc = "validated" /\ {"race_id", "horse_number"} \subseteq df.cols) =>
        LET clash == \E i \in RowIxs(df) : \E j \in RowIxs(df) :
                        /\ i < j
                        /\ SameRace(df, i, j)
                        /\ df.rows[i].c["horse_number"] = df.rows[j].c["horse_number"]
        IN  /\ ("duplicate_horse_number" \in report.violations) <=> clash
            /\ clash => ~ report.valid

\* the largest horse_number among the rows of the race of row i
RaceMax(T, i) ==
    LET mates == {j \in RowIxs(T) : SameRace(T, i, j)}
    IN  T.rows[CHOOSE j \in mates :
                  \A k \in mates :
                      LeQ(T.rows[k].c["horse_number"], T.rows[j].c["horse_number"])
              ].c["horse_number"]

\* C5: with field_size and horse_number present a field-size violation is
\* reported, and false returned, if and only if a declared field size
\* differs from the largest horse_number of its race; the empty table has
\* no such violation.
C5_FieldSizePerRace ==
    (pc = "validated" /\ {"field_size", "horse_number"} \subseteq df.cols) =>
        LET mismatch == \E i \in RowIxs(df) :
                            df.rows[i].c["field_size"] # RaceMax(df, i)
        IN  /\ ("field_size_mismatch" \in report.violations) <=> mismatch
            /\ mismatch => ~ report.valid

---------------------------------------------------------------------------
(* Properties of the feature engineer (checked under SpecFeatures).        *)

\* every cell of the table is the well-formed one
IsBaseTable(T) ==
    \A i \in RowIxs(T) : \A col \in T.cols : T.rows[i].c[col] = FeatBase(col, i)

\* the derived columns whose rule reads the source column col
Dependents(col) ==
    CASE col = "race_date" -> {"race_month", "month_gender_combination", "month_age_combination"}
      [] col \in date_columns \ {"race_date"} -> {MonthColumn(col)}
      [] col = "gender" -> {"month_gender_combination"}
      [] col = "age" -> {"month_age_combination"}
      [] col \in {"last_race_position", "last_race_popularity"} -> {"popularity_performance_gap"}
      [] col \in position_features \ {"last_race_position"} -> {}
      [] col = "last_race_corner3" -> {"last_race_corner3_uphill_combined", "track_last_corner3"}
      [] col = "last_race_final_furlong_rank" ->
             {"last_race_corner3_uphill_combined", "track_last_uphill"}
      [] col \in {"second_last_corner3", "second_last_final_furlong_rank"} ->
             {"second_last_corner3_uphill_combined"}
      [] col \in {"third_last_corner3", "third_last_final_furlong_rank"} ->
             {"third_last_corner3_uphill_combined"}
      [] col = "last_race_field_size" -> {"popularity_performance_gap", "field_size_change"}
      [] col \in {"weight_carried", "horse_weight"} -> {"weight_burden_ratio"}
      [] col = "field_size" -> {"field_size_change"}
      [] col = "distance" -> {"distance_change", "track_distance_combination"}
      [] col = "last_race_distance" -> {"distance_change"}
      [] col = "track_name" ->
             {"track_distance_combination", "track_last_corner3", "track_last_corner4",
              "track_last_uphill", "track_last_track_combination"}
      [] col = "last_race_corner4" -> {"track_last_corner4"}
      [] col \in {"class_name", "last_race_class"} -> {"class_progression"}
      [] col = "last_race_track" -> {"track_last_track_combination"}

(* C1: for every source column a derivation rule reads, create_features on *)
(* a well-formed table that lacks exactly that column does not raise, and  *)
(* its output holds none of the derived columns that depend on the column. *)
C1_ColumnOptional ==
    \A col \in SourceColumns :
       (input.cols = FeatUniverse \ {col} /\ IsBaseTable(input)) =>
          /\ pc # "raised"
          /\ pc = "featured" => df.cols \cap Dependents(col) = {}

(* C2: create_features never raises on the data of its cells: text that is *)
(* no number, a missing cell or a number in a concatenated column give a   *)
(* missing result; the only exception left is that of an absent column.    *)
C2_NeverRaises == pc = "raised" => err = "KeyError"

\* the rows whose statistics score row i
NormGroup(T, i) == IF "race_id" \in T.cols THEN RaceGroup(T, i) ELSE AllRows(T)

\* the score of row i of col is undefined: the input is missing, the row is
\* alone in its group, or the values of its group do not vary
Undefined(T, col, i) ==
    \/ isna(T.rows[i].c[col])
    \/ Cardinality(NormGroup(T, i)) <= 1
    \/ IsConstant(T, col, NormGroup(T, i))

(* C10: in the output of create_features every cell of a catalogue column  *)
(* is a finite number, and is exactly 50 where the score is undefined      *)
(* (missing input, singleton group, zero-variance group), by race and      *)
(* globally.                                                               *)
C10_CatalogueFinite ==
    pc = "featured" =>
       \A i \in RowIxs(df) : \A col \in Catalogue \cap df.cols :
          /\ df.rows[i].c[col].t \in {"num", "dev"}
          /\ Undefined(prev, col, i) => df.rows[i].c[col] = NumI(50)

(* Mean and standard deviation of scores.  A score is 50 + 10 * z with    *)
(* z = sg * sqrt(q); the scores of one group share their std, so the       *)
(* ratio of two of their q is the square of a rational.                    *)

RECURSIVE ISqrtFrom(_, _)
ISqrtFrom(n, k) == IF (k + 1) * (k + 1) > n THEN k ELSE ISqrtFrom(n, k + 1)

\* the rational q >= 0 is a square, and its root
IsSquareQ(q) ==
    /\ ISqrtFrom(q.n, 0) * ISqrtFrom(q.n, 0) = q.n
    /\ ISqrtFrom(q.d, 0) * ISqrtFrom(q.d, 0) = q.d

RootQ(q) == Num(ISqrtFrom(q.n, 0), ISqrtFrom(q.d, 0))

IsScore(c) == c.t = "dev" \/ c = NumI(50)

\* z^2 and the sign of z of a score
ScoreQ(c) == IF c.t = "dev" THEN Num(c.qn, c.qd) ELSE NumI(0)
ScoreSg(c) == IF c.t = "dev" THEN c.sg ELSE 0

\* the sum of z^2 over the rows G
RECURSIVE SumQ(_, _, _)
SumQ(T, col, G) ==
    IF G = {} THEN NumI(0)
    ELSE LET j == CHOOSE j \in G : TRUE
         IN  Add(ScoreQ(T.rows[j].c[col]), SumQ(T, col, G \ {j}))

\* the sum of z / sqrt(unit) over the rows G
RECURSIVE SumZ(_, _, _, _)
SumZ(T, col, G, unit) ==
    IF G = {} THEN NumI(0)
    ELSE LET j == CHOOSE j \in G : TRUE
             c == T.rows[j].c[col]
         IN  Add(Mul(NumI(ScoreSg(c)), RootQ(Div(ScoreQ(c), unit))),
                 SumZ(T, col, G \ {j}, unit))

\* the scores of col over the rows G have mean 50
Mean50(T, col, G) ==
    /\ \A j \in G : IsScore(T.rows[j].c[col])
    /\ LET D == {j \in G : T.rows[j].c[col].t = "dev"}
       IN  IF D = {} THEN TRUE
           ELSE LET unit == ScoreQ(T.rows[CHOOSE j \in D : TRUE].c[col])
                IN  /\ \A j \in G : IsSquareQ(Div(ScoreQ(T.rows[j].c[col]), unit))
                    /\ SumZ(T, col, G, unit) = NumI(0)

\* the scores of col over the rows G have mean 50 and std(ddof=1) 10
Mean50Std10(T, col, G) ==
    /\ Mean50(T, col, G)
    /\ SumQ(T, col, G) = NumI(Cardinality(G) - 1)

\* the race group G has at least two rows and a non-zero variance of col
Spread(T, col, G) ==
    /\ Cardinality(G) >= 2
    /\ IsNum(VarOf(T, col, G))
    /\ ~ IsZero(VarOf(T, col, G))

(* C11: the scores of a catalogue column over every race group of at least *)
(* two rows and non-zero variance have mean 50 and standard deviation 10,  *)
(* also when rows of the group had no value.                               *)
C11_GroupMeanStd ==
    (pc = "featured" /\ "race_id" \in df.cols) =>
       \A i \in RowIxs(df) : \A col \in Catalogue \cap df.cols :
          Spread(prev, col, RaceGroup(prev, i)) =>
             Mean50Std10(df, col, RaceGroup(prev, i))

(* C11 as amended: over the rows of the group that had a value the scores  *)
(* have mean 50 and standard deviation 10; a row without a value scores    *)
(* 50, so the mean of the whole group is 50 as well.                       *)
C11_PresentMeanStd ==
    (pc = "featured" /\ "race_id" \in df.cols) =>
       \A i \in RowIxs(df) : \A col \in Catalogue \cap df.cols :
          Spread(prev, col, RaceGroup(prev, i)) =>
             /\ Mean50Std10(df, col, Valid(prev, col, RaceGroup(prev, i)))
             /\ \A j \in RaceGroup(prev, i) \ Valid(prev, col, RaceGroup(prev, i)) :
                   df.rows[j].c[col] = NumI(50)
             /\ Mean50(df, col, RaceGroup(prev, i))

\* a group of three rows, one without a value, the other two different
C11_Witness ==
    /\ pc = "featured" /\ "race_id" \in df.cols
    /\ \E i \in RowIxs(df) : \E col \in Catalogue \cap df.cols :
          /\ Spread(prev, col, RaceGroup(prev, i))
          /\ Cardinality(RaceGroup(prev, i)) = 3
          /\ Cardinality(Valid(prev, col, RaceGroup(prev, i))) = 2
          /\ df.rows[i].c[col].t = "dev"

---------------------------------------------------------------------------
(* Both calls, validate_and_clean and create_features, each on the tables  *)
(* of its own specification.                                               *)
InitCalls == InitClean \/ InitFeatures

NextCalls == NextClean \/ NextFeatures

SpecCalls == InitCalls /\ [][NextCalls]_vars

(* C12: validate_and_clean and create_features leave the caller's table    *)
(* unchanged: no step of a call changes the rows, columns or cells of the  *)
(* input table (at "cleaned" the caller passes another table to a new      *)
(* call).                                                                  *)
C12_InputUnchanged == [][pc # "cleaned" => input' = input]_vars

\* a call that returned a table different from the one it was given
C12_Witness == pc \in {"cleaned", "featured"} /\ df # input /\ ~ alias

---------------------------------------------------------------------------
(* Position conversion (checked under SpecFeatures, at the end of the      *)
(* performance stage: prev is the table before it, df the table after).    *)

\* the text is written in full-width digits only
IsWideDigits(s) == Len(s) > 0 /\ \A i \in 1..Len(s) : s[i] \in 65296..65305

\* the integer a text of full-width digits denotes
RECURSIVE WideValue(_)
WideValue(s) ==
    IF Len(s) = 0 THEN 0
    ELSE 10 * WideValue(SubSeq(s, 1, Len(s) - 1)) + (s[Len(s)] - 65296)

\* U+FF01..U+FF5E as U+0021..U+007E
HalfWidth(s) ==
    [i \in 1..Len(s) |-> IF s[i] >= 65281 /\ s[i] <= 65374 THEN s[i] - 65248 ELSE s[i]]

(* C13: the conversion of a position column turns a text of full-width     *)
(* digits into the integer it denotes, a text whose half-width form is a   *)
(* decimal number into that number, and a text whose half-width form is    *)
(* no number into a missing cell.                                          *)
C13_FullWidthConversion ==
    pc = "physical" =>
       \A col \in position_features \cap prev.cols : \A i \in RowIxs(prev) :
          LET c == prev.rows[i].c[col]
              r == df.rows[i].c[col]
          IN  IsStr(c) =>
                 /\ IsWideDigits(c.s) => r = NumI(WideValue(c.s))
                 /\ IsDecimal(HalfWidth(c.s)) => r = DecimalValue(HalfWidth(c.s))
                 /\ (~ IsDecimal(HalfWidth(c.s)) /\ HalfWidth(c.s) # TxtInf) => isna(r)

\* a table with a position in full-width digits and one with a full-width
\* minus went through the conversion
C13_Witness ==
    /\ pc = "physical"
    /\ "last_race_position" \in prev.cols
    /\ \E i \in RowIxs(prev) :
          /\ prev.rows[i].c["last_race_position"] = Str(TxtWide12)
          /\ df.rows[i].c["last_race_position"] = NumI(12)
    /\ \E i \in RowIxs(prev) :
          /\ prev.rows[i].c["last_race_position"] = Str(TxtWideMinus1)
          /\ df.rows[i].c["last_race_position"] = NumI(-1)

---------------------------------------------------------------------------
(* The missing-value stage (checked under Spec, at the end of the stage:   *)
(* prev is the table before it, df the table after).                       *)

(* C14: after the missing-value stage, in each of the twelve corner and    *)
(* final-furlong-rank columns a cell that held the text "0" is missing     *)
(* (and is not given 18), a cell that was missing holds 18, and every      *)
(* other cell is unchanged.                                                *)
C14_MissingValueStage ==
    pc = "outliers" =>
       \A j \in RowIxs(df) : \A col \in position_replacement_columns \cap df.cols :
          LET c == RowOf(prev, df.rows[j].id).c[col]
              r == df.rows[j].c[col]
          IN  IF c = Str(TxtZero) THEN isna(r)
              ELSE IF isna(c) THEN r = NumI(WorstRank)
              ELSE r = c

(* C14 as amended: a cell that held the empty text is missing as well;     *)
(* every cell other than "0", the empty text and a missing one is          *)
(* unchanged.                                                              *)
C14_MissingValueStageEmpty ==
    pc = "outliers" =>
       \A j \in RowIxs(df) : \A col \in position_replacement_columns \cap df.cols :
          LET c == RowOf(prev, df.rows[j].id).c[col]
              r == df.rows[j].c[col]
          IN  IF c = Str(TxtZero) \/ c = Str(TxtEmpty) THEN isna(r)
              ELSE IF isna(c) THEN r = NumI(WorstRank)
              ELSE r = c

\* a table with a "0" and a missing corner rank went through the stage
C14_Witness ==
    /\ pc = "outliers"
    /\ "last_race_corner3" \in df.cols
    /\ \E j \in RowIxs(df) :
          /\ RowOf(prev, df.rows[j].id).c["last_race_corner3"] = Str(TxtZero)
          /\ isna(df.rows[j].c["last_race_corner3"])
    /\ \E j \in RowIxs(df) :
          /\ isna(RowOf(prev, df.rows[j].id).c["last_race_corner3"])
          /\ df.rows[j].c["last_race_corner3"] = NumI(WorstRank)

---------------------------------------------------------------------------
(* The normalization stage on reordered and on changed tables (checked     *)
(* under SpecFeatures, at the end of the stage: prev is the table before   *)
(* it, df the table after).                                                *)

\* the permutations of 1..n
Perms(n) == {f \in [1..n -> 1..n] : \A i \in 1..n : \A j \in 1..n : i # j => f[i] # f[j]}

\* the table with its rows in the order f
Permute(T, f) == [cols |-> T.cols, rows |-> [i \in 1..Len(T.rows) |-> T.rows[f[i]]]]

(* C15: every statistic of the normalization stage is read from the values *)
(* before rescaling, so the stage on the table with its rows permuted      *)
(* gives the same rows, permuted the same way, with no value changed.      *)
C15_OrderIndependent ==
    pc = "featured" =>
       \A f \in Perms(Len(prev.rows)) :
          standardize_numerical_features(Permute(prev, f)) = Permute(df, f)

\* three rows, the rows of one race apart, were rescaled within their race
C15_Witness ==
    /\ pc = "featured" /\ "race_id" \in df.cols /\ Len(df.rows) = 3
    /\ df.rows[1].c["race_id"] = df.rows[3].c["race_id"]
    /\ df.rows[1].c["race_id"] # df.rows[2].c["race_id"]
    /\ \E col \in Catalogue \cap df.cols : df.rows[1].c[col].t = "dev"

\* the rows of T that have the race of row i, in table order
RaceRows(T, i) ==
    FilterRows(T, LAMBDA r : r.c["race_id"] = T.rows[i].c["race_id"])

\* T with every catalogue number of the rows outside G raised by one
Perturb(T, G) ==
    [cols |-> T.cols,
     rows |-> [j \in 1..Len(T.rows) |->
                 [id |-> T.rows[j].id,
                  c  |-> [k \in T.cols |->
                            IF j \notin G /\ k \in Catalogue /\ IsNum(T.rows[j].c[k])
                            THEN Add(T.rows[j].c[k], NumI(1))
                            ELSE T.rows[j].c[k]]]]]

\* T with the text "外" in every catalogue cell of the rows outside G
Spoil(T, G) ==
    [cols |-> T.cols,
     rows |-> [j \in 1..Len(T.rows) |->
                 [id |-> T.rows[j].id,
                  c  |-> [k \in T.cols |->
                            IF j \notin G /\ k \in Catalogue THEN Str(TxtGai)
                            ELSE T.rows[j].c[k]]]]]

\* the scores of the rows G of the table T are those of df
SameScores(T, G) ==
    LET out == standardize_numerical_features(T)
    IN  ~ IsRaised(out) /\ \A j \in G : out.rows[j] = df.rows[j]

(* C16: with a race_id column the scores of the rows of a race are the     *)
(* same when the rows of the other races are left out or hold other        *)
(* values, numbers or text; without one, the scores of a column that       *)
(* varies and has no missing value have mean 50 and standard deviation 10  *)
(* over the whole table.                                                   *)
C16_GroupIsolation ==
    pc = "featured" =>
       IF "race_id" \in prev.cols
       THEN \A i \in RowIxs(prev) :
               RaceGroup(prev, i) # {} =>
                  /\ standardize_numerical_features(RaceRows(prev, i)) = RaceRows(df, i)
                  /\ SameScores(Perturb(prev, RaceGroup(prev, i)), RaceGroup(prev, i))
                  /\ SameScores(Spoil(prev, RaceGroup(prev, i)), RaceGroup(prev, i))
       ELSE \A col \in Catalogue \cap df.cols :
               (Spread(prev, col, AllRows(prev)) /\ Valid(prev, col, AllRows(prev)) = AllRows(prev))
                  => Mean50Std10(df, col, AllRows(df))

====
